---- MODULE Spec2Model ----
(***************************************************************************)
(* Model of sl3aio's execution layer (ConsistentExecutor,                  *)
(* ConnectionManager) and of the record/table CRUD engine (TableRecord,    *)
(* MemoryTable, SolidTable).                                               *)
(*                                                                         *)
(* The event loop is single threaded: a coroutine runs without             *)
(* interruption from one suspension point to the next, so every action     *)
(* below is one such run.  The only suspension points of the lifecycle     *)
(* calls are `await self._queue.join()` in ConsistentExecutor.stop (taken  *)
(* only when the queue has unfinished entries) and, for the worker,        *)
(* `await self._queue.get()` and `await run_in_executor(...)`.             *)
(***************************************************************************)
EXTENDS Integers, Sequences, FiniteSets, TLC

\* ------------------------------------------------------------------ bounds
MaxInst  == 2      \* ConnectionManager objects ever constructed
MaxRef   == 2      \* cap of the reference count
MaxTasks == 3      \* tasks ever submitted
MaxCo    == 2      \* lifecycle coroutines suspended at the same time

Insts == 1..MaxInst
TaskIds == 1..MaxTasks
CoIds == 1..MaxCo

\* ------------------------------------------------------------- Connector
\* dbfile arguments a Connector is built from
DbFiles == {":memory:", "a.db", "./a.db"}

\* Connector.__post_init__: ':memory:' is kept as the str it is, every other
\* value becomes Path(dbfile).resolve() (cwd is "/w").
Resolve(dbfile) ==
    CASE dbfile = ":memory:" -> [type |-> "str",  v |-> ":memory:"]
      [] dbfile = "a.db"     -> [type |-> "Path", v |-> "/w/a.db"]
      [] dbfile = "./a.db"   -> [type |-> "Path", v |-> "/w/a.db"]

\* str(connector.database): the key ConnectionManager.__new__ uses
Str(db) == db.v

Databases == {Resolve(f) : f \in DbFiles}
Keys == {Str(db) : db \in Databases}
None == <<0, 0>>
NoDb == [type |-> "none", v |-> ""]

\* dict lookup `obj in _instances` / `_instances.pop(obj)`: the keys are str,
\* a Path object never compares equal to a str.
DictHas(d, obj) == obj.type = "str" /\ obj.v \in Keys /\ d[obj.v] # 0

VARIABLES
    instances,    \* ConnectionManager._instances: key -> instance (0: absent)
    connector,    \* inst -> Connector.database of its _connector
    connection,   \* inst -> id of its native connection, None for None
    native,       \* the native connections that are open: [id, db]
    refcount,     \* inst -> _refcount
    worker_task,  \* inst -> "none" (None) | "get" | "exec" | "crashed"
    queue,        \* inst -> sequence of task ids (_queue)
    unfinished,   \* inst -> _queue._unfinished_tasks
    tasks,        \* sequence of the submitted tasks [inst, raises]
    fut,          \* task -> state of its future
    runs,         \* task -> number of times its callable was started
    onThread,     \* inst -> callables running on the executor's thread
    co,           \* suspended lifecycle coroutines
    issued        \* key -> instances __new__ returned since the key's eviction

VARIABLES
    tkind,        \* "none" before the table is constructed, "memory" | "solid"
    nonrepeating, \* TableRecord.nonrepeating: the unique/primary columns, in order
    records,      \* MemoryTable._records: set of record objects [oid, vals]
    rows,         \* SolidTable: the rows of the table in the store, in rowid order
    nextOid,      \* identity of the next record object made
    ret,          \* what the last insert() returned
    selected,     \* what the last select() yielded
    last,         \* the last update() / delete() call and how it ended
    counted       \* what the last length() / count() call returned

evars == <<instances, connector, connection, native, refcount, worker_task,
           queue, unfinished, tasks, fut, runs, onThread, co, issued>>

tvars == <<tkind, nonrepeating, records, rows, nextOid, ret, selected, last,
           counted>>

VARIABLES
    func,         \* task -> the callable of the task, for the tasks of cursor and table calls
    cur,          \* the native cursor of a CursorManager: the steps it has left
    out,          \* the last call on a ConnectionManager / CursorManager and how it ended
    ins           \* the coroutine that is inside MemoryTable.insert

VARIABLES
    pure,         \* the last application of a function of records or columns
    iter,         \* the stream of a MemoryTable.select that is being consumed
    deferred      \* the legacy deferred Executor: its queue and its run loop

xvars == <<pure, iter, deferred>>

cvars == <<func, cur, out, ins, xvars>>

vars == <<evars, tvars, cvars>>

NoCur == [open |-> FALSE, rows |-> <<>>]
NoOut == [op |-> "none", args |-> <<>>, st |-> "ok", val |-> <<>>, before |-> <<>>,
          failed |-> FALSE]
NoIns == [pc |-> "idle", rec |-> [oid |-> 0, vals |-> <<>>], ignore |-> FALSE, task |-> 0,
          found |-> FALSE, ran |-> FALSE]

NoPure == [op |-> "none", args |-> <<>>, val |-> <<>>]

NoIter == [pc |-> "idle", pred |-> [col |-> 0, val |-> 0], snap |-> {}, yielded |-> {},
           left |-> {}]

NoRet == [rec |-> [oid |-> 0, vals |-> <<>>], ignore |-> FALSE]
NoSel == [pred |-> [col |-> 0, val |-> 0], recs |-> {}]
NoPred == [col |-> 0, val |-> 0]
NoLast == [op |-> "none", pred |-> NoPred, col |-> 0, val |-> 0, st |-> "ok", old |-> {},
           yielded |-> {}]
NoCount == [op |-> "none", st |-> "ok", n |-> 0]

created == {i \in Insts : connector[i] # NoDb}

Idle == [op |-> "idle", inst |-> 0, woken |-> FALSE, new |-> NoDb, running |-> FALSE]

Init ==
    /\ instances = [k \in Keys |-> 0]
    /\ connector = [i \in Insts |-> NoDb]
    /\ connection = [i \in Insts |-> None]
    /\ native = {}
    /\ refcount = [i \in Insts |-> 0]
    /\ worker_task = [i \in Insts |-> "none"]
    /\ queue = [i \in Insts |-> <<>>]
    /\ unfinished = [i \in Insts |-> 0]
    /\ tasks = <<>>
    /\ fut = <<>>
    /\ runs = <<>>
    /\ onThread = [i \in Insts |-> {}]
    /\ co = [c \in CoIds |-> Idle]
    /\ issued = [k \in Keys |-> {}]
    /\ tkind = "none"
    /\ nonrepeating = <<>>
    /\ records = {}
    /\ rows = <<>>
    /\ nextOid = 1
    /\ ret = NoRet
    /\ selected = NoSel
    /\ last = NoLast
    /\ counted = NoCount
    /\ func = <<>>
    /\ cur = NoCur
    /\ out = NoOut
    /\ ins = NoIns
    /\ pure = NoPure
    /\ iter = NoIter
    /\ deferred = [queue |-> <<>>, loop |-> "idle", log |-> <<>>, ret |-> "none"]

\* ---------------------------------------------------------------- heap
\* The fields the lifecycle methods read and write, as one value, so that a
\* method calling another is the composition of their effects.
Heap == [instances |-> instances, connector |-> connector,
         connection |-> connection, native |-> native,
         refcount |-> refcount, worker_task |-> worker_task]

CE_start_always(h, i) ==
    [h   |-> [h EXCEPT !.refcount[i] = @ + 1, !.worker_task[i] = "get"],
     ret |-> TRUE]

\* ConsistentExecutor.start
CE_start(h, i) ==
    [h   |-> [h EXCEPT !.refcount[i] = @ + 1,
                       !.worker_task[i] = IF @ = "none" THEN "get" ELSE @],
     ret |-> h.worker_task[i] = "none"]

\* self._connection = self._connector.connect(): a new native connection to
\* connector.database; a connection that was still referenced stays open
Connect(h, i) ==
    LET id == CHOOSE n \in 1..(Cardinality(h.native) + 1) :
                  \A c \in h.native : c.id # <<i, n>>
    IN  [h EXCEPT !.connection[i] = <<i, id>>,
                  !.native = @ \cup {[id |-> <<i, id>>, db |-> h.connector[i]]}]

\* ConnectionManager.start
CM_start(h, i) ==
    LET r == CE_start(h, i) IN
    IF r.ret THEN Connect(r.h, i) ELSE r.h

\* ConsistentExecutor.stop up to `await self._queue.join()`:
\* "false" the method returned False, "join" it reached the join.
CE_stop_pre(h, i) ==
    IF h.refcount[i] > 0
    THEN LET h1 == [h EXCEPT !.refcount[i] = @ - 1] IN
         [h |-> h1, st |-> IF h1.refcount[i] = 0 THEN "join" ELSE "false"]
    ELSE [h |-> h, st |-> "false"]

\* ConsistentExecutor.stop after the join: cancel the worker, forget it.
CE_stop_post(h, i) ==
    IF h.worker_task[i] = "none"
    THEN [h |-> h, st |-> "AttributeError"]
    ELSE [h |-> [h EXCEPT !.worker_task[i] = "none"], st |-> "ok"]

\* ConnectionManager.stop after super().stop() returned True
CM_close(h, i) ==
    IF h.connection[i] = None
    THEN [h |-> h, st |-> "AttributeError"]
    ELSE [h |-> [h EXCEPT !.connection[i] = None,
                          !.native = {n \in @ : n.id # h.connection[i]}],
          st |-> "ok"]

\* ConnectionManager.stop resumed after the join
CM_stop_post(h, i) ==
    LET r == CE_stop_post(h, i) IN
    IF r.st = "ok" THEN CM_close(r.h, i) ELSE r

\* ConnectionManager.stop; "suspend": it waits in the join
CM_stop(h, i) ==
    LET r == CE_stop_pre(h, i) IN
    IF r.st = "false" THEN [h |-> r.h, st |-> "ok"]
    ELSE IF unfinished[i] > 0 THEN [h |-> r.h, st |-> "suspend"]
    ELSE CM_stop_post(r.h, i)

\* ConnectionManager.remove after its stop(): _instances.pop(self.database)
Remove_pop(h, i) ==
    IF DictHas(h.instances, h.connector[i])
    THEN [h |-> [h EXCEPT !.instances[Str(h.connector[i])] = 0], st |-> "ok"]
    ELSE [h |-> h, st |-> "KeyError"]

\* ConnectionManager.remove
CM_remove(h, i) ==
    LET r == CM_stop(h, i) IN
    IF r.st = "ok" THEN Remove_pop(r.h, i) ELSE r

\* ConnectionManager.set_connector after `await self.remove()`
SC_after_remove(h, i, new, running) ==
    LET h1 == [h EXCEPT !.connector[i] = new] IN
    [h |-> IF running THEN CM_start(h1, i) ELSE h1, st |-> "ok"]

\* ConnectionManager.set_connector after its first `await self.stop()`;
\* "suspend" here is the join of the stop() inside remove()
SC_after_stop(h, i, new, running) ==
    IF new # h.connector[i]
    THEN LET r == CM_remove(h, i) IN
         IF r.st = "ok" THEN SC_after_remove(r.h, i, new, running) ELSE r
    ELSE SC_after_remove(h, i, new, running)

\* ConnectionManager.set_connector; op names the await it is suspended at
CM_set_connector(h, i, new) ==
    LET running == h.connection[i] # None
        r1 == CM_stop(h, i)
        r2 == SC_after_stop(r1.h, i, new, running)
    IN  IF r1.st # "ok"
        THEN [h |-> r1.h, st |-> r1.st, op |-> "set_connector.stop"]
        ELSE [h |-> r2.h, st |-> r2.st, op |-> "set_connector.remove"]

\* The rest of a lifecycle call that was suspended in the join of a stop()
Continue(h, c) ==
    LET i  == c.inst
        r0 == CM_stop_post(h, i)
    IN  CASE r0.st # "ok" -> [h |-> r0.h, st |-> r0.st, op |-> c.op]
          [] r0.st = "ok" /\ c.op = "stop" -> [h |-> r0.h, st |-> "ok", op |-> c.op]
          [] r0.st = "ok" /\ c.op = "remove" ->
                LET r1 == Remove_pop(r0.h, i) IN
                [h |-> r1.h, st |-> r1.st, op |-> c.op]
          [] r0.st = "ok" /\ c.op = "set_connector.stop" ->
                LET r1 == SC_after_stop(r0.h, i, c.new, c.running) IN
                [h |-> r1.h, st |-> r1.st, op |-> "set_connector.remove"]
          [] r0.st = "ok" /\ c.op = "set_connector.remove" ->
                LET r1 == Remove_pop(r0.h, i)
                    r2 == SC_after_remove(r1.h, i, c.new, c.running)
                IN  IF r1.st = "ok" THEN [h |-> r2.h, st |-> "ok", op |-> c.op]
                    ELSE [h |-> r1.h, st |-> r1.st, op |-> c.op]

\* ------------------------------------------------------------- actions
SetHeap(h) ==
    /\ instances' = h.instances
    /\ connector' = h.connector
    /\ connection' = h.connection
    /\ native' = h.native
    /\ refcount' = h.refcount
    /\ worker_task' = h.worker_task

FreeCo(maxCo) == {c \in 1..maxCo : co[c].op = "idle"}

\* A lifecycle call made by an application coroutine ran up to its end or
\* up to the join it is suspended at.
Called(r, op, i, new, running, maxCo) ==
    /\ r.h.refcount[i] <= MaxRef
    /\ SetHeap(r.h)
    /\ IF r.st = "suspend"
       THEN /\ FreeCo(maxCo) # {}
            /\ LET c == CHOOSE x \in FreeCo(maxCo) : \A y \in FreeCo(maxCo) : x <= y IN
               co' = [co EXCEPT ![c] = [op |-> op, inst |-> i, woken |-> FALSE,
                                        new |-> new, running |-> running]]
       ELSE co' = co

\* keys whose registry entry a remove() popped
Evicted(h) == {k \in Keys : instances[k] # 0 /\ h.instances[k] = 0}

Registered_never(key) == FALSE

\* `str(connector.database) in cls._instances`
Registered(key) == instances[key] # 0

\* ConnectionManager.__new__
New(dbfile, maxInst) ==
    LET db  == Resolve(dbfile)
        key == Str(db)
        obj == Cardinality(created) + 1
    IN  /\ IF Registered(key)
           THEN /\ issued' = [issued EXCEPT ![key] = @ \cup {instances[key]}]
                /\ UNCHANGED <<instances, connector>>
           ELSE /\ obj <= maxInst
                /\ connector' = [connector EXCEPT ![obj] = db]
                /\ instances' = [instances EXCEPT ![key] = obj]
                /\ issued' = [issued EXCEPT ![key] = @ \cup {obj}]
        /\ UNCHANGED <<connection, native, refcount, worker_task, queue,
                       unfinished, tasks, fut, runs, onThread, co>>
        /\ UNCHANGED <<tvars, cvars>>

Start(i) ==
    /\ i \in created
    /\ refcount[i] < MaxRef
    /\ SetHeap(CM_start(Heap, i))
    /\ UNCHANGED <<queue, unfinished, tasks, fut, runs, onThread, co, issued>>
    /\ UNCHANGED <<tvars, cvars>>

Stop(i, maxCo) ==
    /\ i \in created
    /\ Called(CM_stop(Heap, i), "stop", i, NoDb, FALSE, maxCo)
    /\ UNCHANGED <<queue, unfinished, tasks, fut, runs, onThread, issued>>
    /\ UNCHANGED <<tvars, cvars>>

Remove(i, maxCo) ==
    /\ i \in created
    /\ LET r == CM_remove(Heap, i) IN
       /\ Called(r, "remove", i, NoDb, FALSE, maxCo)
       /\ issued' = [k \in Keys |-> IF k \in Evicted(r.h) THEN {} ELSE issued[k]]
    /\ UNCHANGED <<queue, unfinished, tasks, fut, runs, onThread>>
    /\ UNCHANGED <<tvars, cvars>>

SetConnector(i, dbfile, maxCo) ==
    /\ i \in created
    /\ LET r == CM_set_connector(Heap, i, Resolve(dbfile)) IN
       /\ Called(r, r.op, i, Resolve(dbfile), connection[i] # None, maxCo)
       /\ issued' = [k \in Keys |-> IF k \in Evicted(r.h) THEN {} ELSE issued[k]]
    /\ UNCHANGED <<queue, unfinished, tasks, fut, runs, onThread>>
    /\ UNCHANGED <<tvars, cvars>>

\* A lifecycle coroutine woken from the join runs on
Resume(c) ==
    /\ co[c].op # "idle"
    /\ co[c].woken
    /\ LET r == Continue(Heap, co[c]) IN
       /\ r.h.refcount[co[c].inst] <= MaxRef
       /\ SetHeap(r.h)
       /\ IF r.st = "suspend"
          THEN co' = [co EXCEPT ![c].op = r.op, ![c].woken = FALSE]
          ELSE co' = [co EXCEPT ![c] = Idle]
       /\ issued' = [k \in Keys |->
                       IF co[c].op # "stop" /\ k \in Evicted(r.h) THEN {} ELSE issued[k]]
    /\ UNCHANGED <<queue, unfinished, tasks, fut, runs, onThread>>
    /\ UNCHANGED <<tvars, cvars>>

\* ConsistentExecutor.__call__: put_nowait((partial(func), future))
Submit(i, raises, maxTasks) ==
    /\ i \in created
    /\ Len(tasks) < maxTasks
    /\ tasks' = Append(tasks, [inst |-> i, raises |-> raises])
    /\ fut' = Append(fut, "pending")
    /\ runs' = Append(runs, 0)
    /\ queue' = [queue EXCEPT ![i] = Append(@, Len(tasks) + 1)]
    /\ unfinished' = [unfinished EXCEPT ![i] = @ + 1]
    /\ UNCHANGED <<instances, connector, connection, native, refcount,
                   worker_task, onThread, co, issued>>
    /\ UNCHANGED <<tvars, cvars>>

\* the caller cancels the future it was given
Cancel(t) ==
    /\ t \in DOMAIN fut
    /\ fut[t] = "pending"
    /\ fut' = [fut EXCEPT ![t] = "cancelled"]
    /\ UNCHANGED <<instances, connector, connection, native, refcount,
                   worker_task, queue, unfinished, tasks, runs, onThread,
                   co, issued>>
    /\ UNCHANGED <<tvars, cvars>>

\* Queue.task_done: the join waiters are woken when the count reaches zero
TaskDone(i) ==
    /\ unfinished' = [unfinished EXCEPT ![i] = @ - 1]
    /\ co' = IF unfinished[i] = 1
             THEN [c \in CoIds |-> IF co[c].op # "idle" /\ co[c].inst = i
                                   THEN [co[c] EXCEPT !.woken = TRUE] ELSE co[c]]
             ELSE co

\* a coroutine woken by task_done is ahead of the worker in the loop's ready
\* queue: the worker's get() is woken by a put that came later
WorkerMayRun(i) == \A c \in CoIds : ~(co[c].op # "idle" /\ co[c].inst = i /\ co[c].woken)

Queue_get_lifo(q) == q[Len(q)]

\* Queue.get: the entry the worker takes from the queue
Queue_get(q) == Head(q)

Future_done_never(t) == FALSE

\* `task[1].done()`
Future_done(t) == fut[t] # "pending"

Worker_awaiting_or_not(i) == worker_task[i] \in {"get", "exec"}

\* the worker is suspended in `await self._queue.get()`; while it awaits
\* run_in_executor(...) it takes nothing from the queue
Worker_awaiting_get(i) == worker_task[i] = "get"

Worker_resolve_no_except(t) ==
    IF fut[t] = "pending" /\ ~tasks[t].raises
    THEN [fut |-> "result", worker |-> "get"]
    ELSE [fut |-> fut[t], worker |-> "crashed"]

\* the try/except of _worker: set_result, or set_exception in the handler
\* of `except Exception`; on a future that is done both raise
\* InvalidStateError, which ends the worker coroutine
Worker_resolve(t) ==
    IF fut[t] = "pending"
    THEN [fut |-> IF tasks[t].raises THEN "exception" ELSE "result", worker |-> "get"]
    ELSE [fut |-> fut[t], worker |-> "crashed"]

\* _worker: `task = await self._queue.get()` up to the next await
WorkerGet(i) ==
    /\ Worker_awaiting_get(i)
    /\ queue[i] # <<>>
    /\ WorkerMayRun(i)
    /\ LET t == Queue_get(queue[i]) IN
       /\ queue' = [queue EXCEPT ![i] = SelectSeq(@, LAMBDA x : x # t)]
       /\ IF Future_done(t)
          THEN /\ TaskDone(i)
               /\ UNCHANGED <<worker_task, runs, onThread>>
          ELSE /\ worker_task' = [worker_task EXCEPT ![i] = "exec"]
               /\ runs' = [runs EXCEPT ![t] = @ + 1]
               /\ onThread' = [onThread EXCEPT ![i] = @ \cup {t}]
               /\ UNCHANGED <<unfinished, co>>
    /\ UNCHANGED <<instances, connector, connection, native, refcount,
                   tasks, fut, issued>>
    /\ UNCHANGED <<tvars, cvars>>

\* _worker resumed by the end of the callable, up to the next get()
WorkerDone(i) ==
    /\ worker_task[i] = "exec"
    /\ \E t \in onThread[i] :
        /\ onThread' = [onThread EXCEPT ![i] = @ \ {t}]
        /\ fut' = [fut EXCEPT ![t] = Worker_resolve(t).fut]
        /\ worker_task' = [worker_task EXCEPT ![i] = Worker_resolve(t).worker]
        /\ TaskDone(i)
    /\ UNCHANGED <<instances, connector, connection, native, refcount,
                   queue, tasks, runs, issued>>
    /\ UNCHANGED <<tvars, cvars>>

\* ------------------------------------------------------------------ tables
\* A table of two columns a, b (fields 1, 2).  Column b has the static
\* default 1; the schema says which of a, b are PRIMARY KEY / UNIQUE.
\* Every table call below is made with the table's executor running and
\* runs to its end before the next call is made.
MaxVal == 2        \* column values are 1..MaxVal
MaxMade == 3       \* record objects ever made by insert()

Fields == 1..2
Vals == 1..MaxVal

\* TableRecord.make_subclass: nonrepeating = the unique or primary columns
Schemas == {<<>>, <<1>>, <<1, 2>>}

\* TableColumn.get_default: no generator, the static default; 0 is None
Get_default(c) == IF c = 2 THEN 1 ELSE 0

\* the columns declared with nullable=False: column a
NotNull == {1}

\* the NOT NULL constraints of the store
Not_null_ok(v) == \A c \in NotNull : v[c] # 0

\* TableRecord.__new__: the given value of each column, else its default
Make_vals(values) ==
    [c \in Fields |-> IF c \in DOMAIN values THEN values[c] ELSE Get_default(c)]

\* TableRecord.__hash__: hash(tuple of the nonrepeating values); the hash of
\* a tuple of small ints is taken to be collision free
Hash(nr, v) == [k \in DOMAIN nr |-> v[nr[k]]]

\* TableRecord.__eq__: any nonrepeating column has the same value
Eq(nr, v, w) == \E k \in DOMAIN nr : v[nr[k]] = w[nr[k]]

\* what a set() takes for the same element: the same object, or equal hash
\* and __eq__
Same_element(nr, x, y) ==
    x.oid = y.oid \/ (Hash(nr, x.vals) = Hash(nr, y.vals) /\ Eq(nr, x.vals, y.vals))

\* set.__contains__, set.discard, set.add
Set_contains(nr, s, x) == \E y \in s : Same_element(nr, y, x)
Set_discard(nr, s, x) == {y \in s : ~Same_element(nr, y, x)}
Set_add(nr, s, x) == IF Set_contains(nr, s, x) THEN s ELSE s \cup {x}

\* MemoryTable.insert on the record set
Memory_insert(nr, s, x, ignore_existing) ==
    LET s1 == IF Set_contains(nr, s, x) /\ ~ignore_existing
              THEN Set_discard(nr, s, x) ELSE s
    IN  Set_add(nr, s1, x)

\* rows that violate a PRIMARY KEY / UNIQUE constraint together with v
Conflicts(nr, rws, v) == {i \in DOMAIN rws : Eq(nr, rws[i], v)}

Without(rws, is) ==
    LET F[n \in 0..Len(rws)] ==
            IF n = 0 THEN <<>>
            ELSE IF n \in is THEN F[n - 1] ELSE Append(F[n - 1], rws[n])
    IN  F[Len(rws)]

\* SolidTable.insert: INSERT OR REPLACE / INSERT OR IGNORE INTO t VALUES (...)
Solid_insert(nr, rws, v, ignore_existing) ==
    IF ignore_existing
    THEN IF Conflicts(nr, rws, v) = {} THEN Append(rws, v) ELSE rws
    ELSE Append(Without(rws, Conflicts(nr, rws, v)), v)

\* how the statement of SolidTable.insert ends for a row that has NULL in a
\* NOT NULL column without default: OR IGNORE skips the row, OR REPLACE fails
Solid_insert_st(v, ignore_existing) ==
    IF Not_null_ok(v) \/ ignore_existing THEN "ok" ELSE "IntegrityError"

\* MemoryTable(name, columns) / SolidTable(name, columns, executor), created
CreateTable(kind, nr) ==
    /\ tkind = "none"
    /\ tkind' = kind
    /\ nonrepeating' = nr
    /\ UNCHANGED <<records, rows, nextOid, ret, selected, last, counted>>
    /\ UNCHANGED <<evars, cvars>>

\* Table.insert(ignore_existing, **values)
Insert(ignore_existing, values) ==
    /\ tkind # "none"
    /\ nextOid <= MaxMade
    /\ LET rec == [oid |-> nextOid, vals |-> Make_vals(values)] IN
       IF tkind = "memory"
       THEN /\ records' = Memory_insert(nonrepeating, records, rec, ignore_existing)
            /\ ret' = [rec |-> rec, ignore |-> ignore_existing]
            /\ last' = NoLast
            /\ rows' = rows
       ELSE /\ rows' = IF Not_null_ok(rec.vals)
                       THEN Solid_insert(nonrepeating, rows, rec.vals, ignore_existing)
                       ELSE rows
            /\ ret' = IF Solid_insert_st(rec.vals, ignore_existing) = "ok"
                      THEN [rec |-> rec, ignore |-> ignore_existing] ELSE NoRet
            /\ last' = [NoLast EXCEPT !.op = "insert",
                                      !.st = Solid_insert_st(rec.vals, ignore_existing)]
            /\ records' = records
    /\ nextOid' = nextOid + 1
    /\ selected' = NoSel
    /\ counted' = NoCount
    /\ UNCHANGED <<tkind, nonrepeating>>
    /\ UNCHANGED <<evars, cvars>>

\* the predicate `lambda record: record[col] == val`
Holds(pred, v) == v[pred.col] = pred.val

\* Table.select(predicate): MemoryTable filters a copy of the record set,
\* SolidTable makes a record of every row of SELECT * and filters
Select_result(pred) ==
    IF tkind = "memory"
    THEN {x \in records : Holds(pred, x.vals)}
    ELSE {[oid |-> nextOid + i, vals |-> rows[i]] : i \in {j \in DOMAIN rows : Holds(pred, rows[j])}}

Select(pred) ==
    /\ tkind # "none"
    /\ selected' = [pred |-> pred, recs |-> Select_result(pred)]
    /\ counted' = NoCount
    /\ UNCHANGED <<tkind, nonrepeating, records, rows, nextOid, ret, last>>
    /\ UNCHANGED <<evars, cvars>>

\* the records the table holds
Stored(recs, rws) ==
    IF tkind = "memory" THEN recs
    ELSE {[oid |-> 0 - i, vals |-> rws[i]] : i \in DOMAIN rws}

MaxReplaced == 2   \* record objects ever made by replace()

\* the orders in which a set can be iterated
Orders(S) == {f \in [1..Cardinality(S) -> S] : \A x \in S : \E k \in DOMAIN f : f[k] = x}

\* TableRecord.replace: a new record object, the given column replaced
Replace(x, col, val, oid) == [oid |-> oid, vals |-> [x.vals EXCEPT ![col] = val]]

\* MemoryTable.updated over the matching records of the copy, in iteration
\* order: make the replacement, set.discard the record, set.add the new one
Memory_updated(nr, s, order, col, val, oid) ==
    LET F[n \in 0..Len(order)] ==
            IF n = 0 THEN s
            ELSE Set_add(nr, Set_discard(nr, F[n - 1], order[n]),
                         Replace(order[n], col, val, oid + n - 1))
    IN  F[Len(order)]

\* SolidTable._execute_where: the rows `WHERE key = ?` selects for a record
\* with values v, key the first nonrepeating column; all columns without one
\* (no value of the model's records is None)
Matches(nr, row, v) ==
    IF nr # <<>> THEN row[nr[1]] = v[nr[1]] ELSE row = v

Where(nr, rws, v) == {i \in DOMAIN rws : Matches(nr, rws[i], v)}

\* the PRIMARY KEY / UNIQUE constraints of the store
Unique_ok(nr, rws) ==
    \A i, j \in DOMAIN rws : \A k \in DOMAIN nr :
        i # j => rws[i][nr[k]] # rws[j][nr[k]]

\* one `UPDATE t SET col = ? WHERE ...` statement: a statement that violates
\* a constraint fails and changes nothing
Update_where(nr, rws, v, col, val) ==
    LET new == [i \in DOMAIN rws |->
                   IF i \in Where(nr, rws, v) THEN [rws[i] EXCEPT ![col] = val] ELSE rws[i]]
    IN  IF Unique_ok(nr, new) THEN [rows |-> new, st |-> "ok"]
        ELSE [rows |-> rws, st |-> "IntegrityError"]

\* SolidTable.updated.  With a predicate the rows of SELECT * are stepped
\* through one by one, an UPDATE is executed for each row the predicate holds
\* of and `record`, made of the row that was read, is yielded; an error ends
\* the call.  Without one `to_update.values()`, a dict view, is passed as the
\* parameters of the statement, which the store's driver refuses
Solid_updated(nr, rws, pred, col, val) ==
    LET F[n \in 0..Len(rws)] ==
            IF n = 0 THEN [rows |-> rws, st |-> "ok", yielded |-> {}]
            ELSE LET was == F[n - 1]
                     u   == Update_where(nr, was.rows, was.rows[n], col, val)
                 IN  IF was.st = "ok" /\ Holds(pred, was.rows[n])
                     THEN [rows |-> u.rows, st |-> u.st,
                           yielded |-> IF u.st = "ok"
                                       THEN was.yielded \cup {was.rows[n]}
                                       ELSE was.yielded]
                     ELSE was
    IN  IF pred = NoPred
        THEN [rows |-> rws, st |-> "ProgrammingError", yielded |-> {}]
        ELSE F[Len(rws)]

\* the records a call with this predicate is about: all without a predicate
Selects(pred, v) == pred = NoPred \/ Holds(pred, v)

\* Table.update(predicate, col=val)
Update(pred, col, val) ==
    /\ tkind # "none"
    /\ LET old == {x \in Stored(records, rows) : Selects(pred, x.vals)}
           u   == Solid_updated(nonrepeating, rows, pred, col, val)
       IN
       /\ last' = [op |-> "update", pred |-> pred, col |-> col, val |-> val,
                   st |-> IF tkind = "memory" THEN "ok" ELSE u.st,
                   old |-> old,
                   yielded |-> IF tkind = "memory"
                               THEN {Replace(x, col, val, 0).vals : x \in old}
                               ELSE u.yielded]
       /\ IF tkind = "memory"
          THEN /\ nextOid + Cardinality(old) - 1 <= MaxMade + MaxReplaced
               /\ \E order \in Orders(old) :
                    records' = Memory_updated(nonrepeating, records, order, col, val, nextOid)
               /\ nextOid' = nextOid + Cardinality(old)
               /\ rows' = rows
          ELSE /\ rows' = u.rows
               /\ UNCHANGED <<records, nextOid>>
    /\ ret' = NoRet
    /\ selected' = NoSel
    /\ counted' = NoCount
    /\ UNCHANGED <<tkind, nonrepeating>>
    /\ UNCHANGED <<evars, cvars>>

\* MemoryTable.deleted: without a predicate `set.discard(self._records)` is
\* called for the first record of the copy, one argument short; with a
\* predicate, `if predicate(record)` tests what the predicate returns: the
\* bool of a plain callable, or the coroutine object of an async one, which
\* is true, and the record is discarded and yielded
Memory_deleted(nr, s, pred, is_async) ==
    LET hit == {x \in s : is_async \/ Holds(pred, x.vals)} IN
    IF pred = NoPred
    THEN [records |-> s, st |-> IF s = {} THEN "ok" ELSE "TypeError", yielded |-> {}]
    ELSE [records |-> {y \in s : \A x \in hit : y \in Set_discard(nr, s, x)},
          st |-> "ok", yielded |-> {x.vals : x \in hit}]

\* SolidTable.deleted: `DELETE FROM t RETURNING *` without a predicate; with
\* one, the rows of SELECT * are stepped through and a DELETE ... WHERE is
\* executed for each row the predicate holds of, which is then yielded
Solid_deleted(nr, rws, pred) ==
    LET F[n \in 0..Len(rws)] ==
            IF n = 0 THEN [done |-> <<>>, todo |-> rws, yielded |-> {}]
            ELSE LET was == F[n - 1]
                     r == Head(was.todo)
                     keep(x) == ~Matches(nr, x, r)
                 IN  IF was.todo = <<>> THEN was
                     ELSE IF Holds(pred, r)
                     THEN [done |-> SelectSeq(was.done, keep),
                           todo |-> SelectSeq(Tail(was.todo), keep),
                           yielded |-> was.yielded \cup {r}]
                     ELSE [done |-> Append(was.done, r),
                           todo |-> Tail(was.todo),
                           yielded |-> was.yielded]
    IN  IF pred = NoPred
        THEN [rows |-> <<>>, st |-> "ok", yielded |-> {rws[i] : i \in DOMAIN rws}]
        ELSE [rows |-> F[Len(rws)].done, st |-> "ok", yielded |-> F[Len(rws)].yielded]

\* `await predicate(record)` of SolidTable.deleted: the bool a plain callable
\* returns cannot be awaited
Solid_deleted_sync(nr, rws, pred) ==
    IF pred = NoPred \/ rws = <<>>
    THEN Solid_deleted(nr, rws, pred)
    ELSE [rows |-> rws, st |-> "TypeError", yielded |-> {}]

\* Table.delete(predicate), the predicate a plain or an async callable
Delete(pred, is_async) ==
    /\ tkind # "none"
    /\ LET d == IF tkind = "memory"
                THEN Memory_deleted(nonrepeating, records, pred, is_async)
                ELSE IF is_async THEN Solid_deleted(nonrepeating, rows, pred)
                ELSE Solid_deleted_sync(nonrepeating, rows, pred)
       IN  /\ last' = [op |-> "delete", pred |-> pred, col |-> 0, val |-> 0,
                       st |-> d.st,
                       old |-> {x \in Stored(records, rows) : Selects(pred, x.vals)},
                       yielded |-> d.yielded]
           /\ IF tkind = "memory"
              THEN records' = d.records /\ rows' = rows
              ELSE rows' = d.rows /\ records' = records
    /\ ret' = NoRet
    /\ selected' = NoSel
    /\ counted' = NoCount
    /\ UNCHANGED <<tkind, nonrepeating, nextOid>>
    /\ UNCHANGED <<evars, cvars>>

\* MemoryTable.length: len(self._records).  SolidTable.length:
\* `await (...).fetchone()[0]` subscripts the coroutine fetchone() returns
Length_result ==
    IF tkind = "memory" THEN [st |-> "ok", n |-> Cardinality(records)]
    ELSE [st |-> "TypeError", n |-> 0]

\* Table.length()
Length ==
    /\ tkind # "none"
    /\ counted' = [op |-> "length", st |-> Length_result.st, n |-> Length_result.n]
    /\ selected' = NoSel
    /\ UNCHANGED <<tkind, nonrepeating, records, rows, nextOid, ret, last>>
    /\ UNCHANGED <<evars, cvars>>

\* Table.count(predicate): length() without a predicate, else the number of
\* records select(predicate) yields
Count(pred) ==
    /\ tkind # "none"
    /\ counted' = IF pred = NoPred
                  THEN [op |-> "count", st |-> Length_result.st, n |-> Length_result.n]
                  ELSE [op |-> "count", st |-> "ok", n |-> Cardinality(Select_result(pred))]
    /\ selected' = NoSel
    /\ UNCHANGED <<tkind, nonrepeating, records, rows, nextOid, ret, last>>
    /\ UNCHANGED <<evars, cvars>>

\* the values insert() is called with: a given, b given or defaulted
InsertValues ==
    UNION {[cs -> Vals] : cs \in {{1}, {1, 2}}}

Preds == [col : Fields, val : Vals]

\* One table and its calls
NextTable ==
    \/ \E k \in {"memory", "solid"}, nr \in Schemas : CreateTable(k, nr)
    \/ \E ig \in BOOLEAN, v \in InsertValues : Insert(ig, v)
    \/ \E p \in Preds : Select(p)

SpecTable == Init /\ [][NextTable]_vars

\* One table and its insert, select, update, delete, length and count calls,
\* the predicates async callables
NextCrud ==
    \/ \E k \in {"memory", "solid"}, nr \in Schemas : CreateTable(k, nr)
    \/ \E ig \in BOOLEAN, v \in InsertValues : Insert(ig, v)
    \/ \E p \in Preds : Select(p)
    \/ \E p \in Preds, c \in Fields, v \in Vals : Update(p, c, v)
    \/ \E p \in Preds \cup {NoPred} : Delete(p, TRUE)
    \/ Length
    \/ \E p \in Preds \cup {NoPred} : Count(p)

SpecCrud == Init /\ [][NextCrud]_vars

\* One table and its insert, update and delete calls, with and without a
\* predicate, the predicate of delete a plain or an async callable
NextPred ==
    \/ \E k \in {"memory", "solid"}, nr \in Schemas : CreateTable(k, nr)
    \/ \E ig \in BOOLEAN, v \in InsertValues : Insert(ig, v)
    \/ \E p \in Preds \cup {NoPred}, c \in Fields, v \in Vals : Update(p, c, v)
    \/ \E p \in Preds \cup {NoPred}, as \in BOOLEAN : Delete(p, as)

SpecPred == Init /\ [][NextPred]_vars

\* the values of an insert() that may leave out column a
InsertValuesOpt ==
    UNION {[cs -> Vals] : cs \in SUBSET Fields}

\* One table without unique/primary columns; insert() is also called
\* without a value for the NOT NULL column a
NextNull ==
    \/ \E k \in {"memory", "solid"} : CreateTable(k, <<>>)
    \/ \E ig \in BOOLEAN, v \in InsertValuesOpt : Insert(ig, v)
    \/ \E p \in Preds : Select(p)

SpecNull == Init /\ [][NextNull]_vars

\* ----------------------------------------------------------------- cursors
\* A CursorManager and the native cursor it wraps.  The native cursor is the
\* sequence of the steps it has left: a row (1, 2, ...) or 0, a step at
\* which the store fails.  Every call below is made with the manager
\* running and runs to its end before the next call is made.
MaxRows == 3       \* rows a statement produces
MaxStart == 2      \* the start argument of fetch()
MaxStep == 2       \* the step argument of fetch()

NoStop == 0 - 1    \* stop=None

\* the steps of the cursor of a statement with n rows, the e-th step failing
Stream(n, e) == [k \in 1..n |-> IF k = e THEN 0 ELSE k]

Native_next_skipping(rws) ==
    IF rws = <<>> THEN [st |-> "stop", row |-> 0, rows |-> <<>>]
    ELSE IF Head(rws) = 0 THEN [st |-> "error", row |-> 0, rows |-> <<>>]
    ELSE [st |-> "row", row |-> Head(rws),
          rows |-> IF Len(rws) > 1 THEN Tail(Tail(rws)) ELSE <<>>]

\* next(cursor, None) on the worker thread: the next row, None ("stop") when
\* the cursor is exhausted; an error of the store ends the statement
Native_next(rws) ==
    IF rws = <<>> THEN [st |-> "stop", row |-> 0, rows |-> <<>>]
    ELSE IF Head(rws) = 0 THEN [st |-> "error", row |-> 0, rows |-> <<>>]
    ELSE [st |-> "row", row |-> Head(rws), rows |-> Tail(rws)]

\* CursorManager.__anext__: StopAsyncIteration when the result is None
Anext_result(rws) ==
    LET nx == Native_next(rws) IN
    [st   |-> CASE nx.st = "row" -> "ok"
                [] nx.st = "stop" -> "StopAsyncIteration"
                [] nx.st = "error" -> "NativeError",
     row  |-> nx.row,
     rows |-> nx.rows]

\* CursorManager.fetch: the while loop; any exception, the one that ends the
\* rows included, leaves through `finally: return result`
Fetch_loop(rws, start, stop, step) ==
    LET F[k \in 0..(start + Len(rws) + 2)] ==
            IF k = 0
            THEN [i |-> 0, result |-> <<>>, rows |-> rws, run |-> TRUE, failed |-> FALSE]
            ELSE LET p == F[k - 1] IN
                 IF ~p.run THEN p
                 ELSE IF p.i > start
                 THEN IF stop # NoStop /\ p.i >= stop
                      THEN [p EXCEPT !.run = FALSE]
                      ELSE LET a == Anext_result(p.rows) IN
                           IF a.st = "ok"
                           THEN [p EXCEPT !.i = @ + 1, !.rows = a.rows,
                                          !.result = IF p.i % step = 0
                                                     THEN Append(@, a.row) ELSE @]
                           ELSE [p EXCEPT !.run = FALSE, !.rows = a.rows,
                                          !.failed = (a.st = "NativeError")]
                 ELSE [p EXCEPT !.i = @ + 1]
    IN  F[start + Len(rws) + 2]

\* CursorManager.__aiter__: yield await anext(self) until StopAsyncIteration
Aiter_loop(rws) ==
    LET F[k \in 0..(Len(rws) + 1)] ==
            IF k = 0
            THEN [yielded |-> <<>>, rows |-> rws, st |-> "run"]
            ELSE LET p == F[k - 1] IN
                 IF p.st # "run" THEN p
                 ELSE LET a == Anext_result(p.rows) IN
                      IF a.st = "ok"
                      THEN [p EXCEPT !.yielded = Append(@, a.row), !.rows = a.rows]
                      ELSE [p EXCEPT !.rows = a.rows,
                                     !.st = IF a.st = "NativeError" THEN a.st ELSE "ok"]
    IN  F[Len(rws) + 1]

\* ConnectionManager.execute / executemany / executescript: the statement
\* runs on the worker; its cursor is wrapped in a CursorManager
Execute(op, n, e, fails) ==
    /\ out' = [NoOut EXCEPT !.op = op, !.failed = fails,
                            !.st = IF fails THEN "NativeError" ELSE "ok"]
    /\ cur' = IF fails THEN cur ELSE [open |-> TRUE, rows |-> Stream(n, e)]
    /\ UNCHANGED <<func, ins, xvars>>
    /\ UNCHANGED <<evars, tvars>>

\* ConnectionManager.commit / rollback
Commit(op, fails) ==
    /\ out' = [NoOut EXCEPT !.op = op, !.failed = fails,
                            !.st = IF fails THEN "NativeError" ELSE "ok"]
    /\ UNCHANGED <<func, cur, ins, xvars>>
    /\ UNCHANGED <<evars, tvars>>

\* await anext(cursor_manager)
Anext ==
    /\ cur.open
    /\ LET a == Anext_result(cur.rows) IN
       /\ out' = [op |-> "anext", args |-> <<>>, st |-> a.st, val |-> <<a.row>>,
                  before |-> cur.rows, failed |-> (a.st = "NativeError")]
       /\ cur' = [cur EXCEPT !.rows = a.rows]
    /\ UNCHANGED <<func, ins, xvars>>
    /\ UNCHANGED <<evars, tvars>>

\* CursorManager.fetchone: anext(self, None); None is <<0>> here
Fetchone ==
    /\ cur.open
    /\ LET a == Anext_result(cur.rows) IN
       /\ out' = [op |-> "fetchone", args |-> <<>>,
                  st |-> IF a.st = "StopAsyncIteration" THEN "ok" ELSE a.st,
                  val |-> <<a.row>>, before |-> cur.rows,
                  failed |-> (a.st = "NativeError")]
       /\ cur' = [cur EXCEPT !.rows = a.rows]
    /\ UNCHANGED <<func, ins, xvars>>
    /\ UNCHANGED <<evars, tvars>>

\* CursorManager.fetch(start, stop, step)
Fetch(start, stop, step) ==
    /\ cur.open
    /\ LET f == Fetch_loop(cur.rows, start, stop, step) IN
       /\ out' = [op |-> "fetch", args |-> <<start, stop, step>>, st |-> "ok",
                  val |-> f.result, before |-> cur.rows, failed |-> f.failed]
       /\ cur' = [cur EXCEPT !.rows = f.rows]
    /\ UNCHANGED <<func, ins, xvars>>
    /\ UNCHANGED <<evars, tvars>>

\* async for row in cursor_manager, consumed to its end
Iterate ==
    /\ cur.open
    /\ LET f == Aiter_loop(cur.rows) IN
       /\ out' = [op |-> "aiter", args |-> <<>>, st |-> f.st, val |-> f.yielded,
                  before |-> cur.rows, failed |-> (f.st = "NativeError")]
       /\ cur' = [cur EXCEPT !.rows = f.rows]
    /\ UNCHANGED <<func, ins, xvars>>
    /\ UNCHANGED <<evars, tvars>>

\* One running manager, the statements executed on it and the calls on the
\* cursor of the last one
NextCursor ==
    \/ \E op \in {"execute", "executemany", "executescript"}, n \in 0..MaxRows,
          fails \in BOOLEAN : \E e \in 0..n : Execute(op, n, e, fails)
    \/ \E op \in {"commit", "rollback"}, fails \in BOOLEAN : Commit(op, fails)
    \/ Anext
    \/ Fetchone
    \/ \E start \in 0..MaxStart, stop \in {NoStop} \cup 0..(MaxRows + 1),
          step \in 1..MaxStep : Fetch(start, stop, step)
    \/ Iterate

SpecCursor == Init /\ [][NextCursor]_vars

\* ------------------------------------------------- cursor steps as tasks
Anext_dispatch_direct(i, t) ==
    [queue |-> queue, unfinished |-> unfinished,
     onThread |-> [onThread EXCEPT ![i] = @ \cup {t}],
     runs |-> Append(runs, 1)]

\* `await self.connection_manager(next, self._cursor, None)`: the step is the
\* callable of a new entry of the manager's queue
Anext_dispatch(i, t) ==
    [queue |-> [queue EXCEPT ![i] = Append(@, t)],
     unfinished |-> [unfinished EXCEPT ![i] = @ + 1],
     onThread |-> onThread,
     runs |-> Append(runs, 0)]

\* CursorManager.__anext__ of a cursor of manager i, up to its await; the
\* native step fails in the store or not
AnextSubmit(i, raises, maxTasks) ==
    /\ i \in created
    /\ Len(tasks) < maxTasks
    /\ LET t == Len(tasks) + 1
           d == Anext_dispatch(i, t)
       IN  /\ tasks' = Append(tasks, [inst |-> i, raises |-> raises])
           /\ fut' = Append(fut, "pending")
           /\ func' = Append(func, "next")
           /\ runs' = d.runs
           /\ queue' = d.queue
           /\ unfinished' = d.unfinished
           /\ onThread' = d.onThread
    /\ UNCHANGED <<instances, connector, connection, native, refcount,
                   worker_task, co, issued>>
    /\ UNCHANGED <<cur, out, ins, xvars>>
    /\ UNCHANGED tvars

\* ConnectionManager.execute, commit, rollback, ...: `await self(native call)`
CallSubmit(i, raises, maxTasks) ==
    /\ i \in created
    /\ Len(tasks) < maxTasks
    /\ tasks' = Append(tasks, [inst |-> i, raises |-> raises])
    /\ fut' = Append(fut, "pending")
    /\ func' = Append(func, "call")
    /\ runs' = Append(runs, 0)
    /\ queue' = [queue EXCEPT ![i] = Append(@, Len(tasks) + 1)]
    /\ unfinished' = [unfinished EXCEPT ![i] = @ + 1]
    /\ UNCHANGED <<instances, connector, connection, native, refcount,
                   worker_task, onThread, co, issued>>
    /\ UNCHANGED <<cur, out, ins, xvars>>
    /\ UNCHANGED tvars

\* One manager, its start() and stop() calls, and the native calls of its
\* statements and of the cursor steps of concurrent readers
NextSteps ==
    \/ \E f \in DbFiles : New(f, 1)
    \/ \E i \in Insts : Start(i)
    \/ \E i \in Insts : Stop(i, MaxCo)
    \/ \E c \in CoIds : Resume(c)
    \/ \E i \in Insts : CallSubmit(i, FALSE, MaxTasks)
    \/ \E i \in Insts, r \in BOOLEAN : AnextSubmit(i, r, MaxTasks)
    \/ \E i \in Insts : WorkerGet(i)
    \/ \E i \in Insts : WorkerDone(i)

SpecSteps == Init /\ [][NextSteps]_vars

\* ----------------------------------------------------------------- records
\* Equality and hash of records, of the package's TableRecord ("sl3aio") and
\* of the record types the legacy module's table_record makes ("legacy")
Variants == {"sl3aio", "legacy"}

RecordVals == [Fields -> Vals]

\* table_record: '__eq__': all(...) if self.nonrepeating else False
Table_record_eq(nr, v, w) ==
    IF nr # <<>> THEN \A k \in DOMAIN nr : v[nr[k]] = w[nr[k]] ELSE FALSE

\* table_record: '__hash__': hash(tuple of the nonrepeating values)
Table_record_hash(nr, v) == [k \in DOMAIN nr |-> v[nr[k]]]

\* `a == b` for two records of one table
Compare(variant, nr, v, w) ==
    /\ pure' = [op |-> "eq", args |-> <<variant, nr, v, w>>,
                val |-> IF variant = "sl3aio" THEN Eq(nr, v, w)
                        ELSE Table_record_eq(nr, v, w)]
    /\ UNCHANGED <<func, cur, out, ins, iter, deferred>>
    /\ UNCHANGED <<evars, tvars>>

\* `hash(a)`, `hash(b)` for two records of one table
HashBoth(variant, nr, v, w) ==
    /\ pure' = [op |-> "hash", args |-> <<variant, nr, v, w>>,
                val |-> IF variant = "sl3aio" THEN <<Hash(nr, v), Hash(nr, w)>>
                        ELSE <<Table_record_hash(nr, v), Table_record_hash(nr, w)>>]
    /\ UNCHANGED <<func, cur, out, ins, iter, deferred>>
    /\ UNCHANGED <<evars, tvars>>

\* `a == a`, `a == b`, `b == a`, `b == c`, `a == c` for three records of one
\* table
CompareThree(variant, nr, a, b, c) ==
    LET eq(v, w) == IF variant = "sl3aio" THEN Eq(nr, v, w)
                    ELSE Table_record_eq(nr, v, w)
    IN  /\ pure' = [op |-> "eq3", args |-> <<variant, nr, a, b, c>>,
                    val |-> [aa |-> eq(a, a), ab |-> eq(a, b), ba |-> eq(b, a),
                             bc |-> eq(b, c), ac |-> eq(a, c)]]
        /\ UNCHANGED <<func, cur, out, ins, iter, deferred>>
        /\ UNCHANGED <<evars, tvars>>

NextRecord ==
    \/ \E x \in Variants, nr \in Schemas, v, w \in RecordVals : Compare(x, nr, v, w)
    \/ \E x \in Variants, nr \in Schemas, v, w \in RecordVals : HashBoth(x, nr, v, w)
    \/ \E x \in Variants, nr \in Schemas, a, b, c \in RecordVals :
            CompareThree(x, nr, a, b, c)

SpecRecord == Init /\ [][NextRecord]_vars

\* ------------------------------------------------------- table definitions
\* SolidTable.create() and SqlTable.from_database() for a table of one or
\* two columns.  A value is an int or a str: [type, v], the str standing
\* for a word of letters.  The default of a column is none, a value of the
\* column's type, or a registered generator, given by its name.
MaxCols == 2

Typenames == {"INTEGER", "TEXT"}

NoDefault == [kind |-> "none", type |-> "none", v |-> 0]

Defaults(typename) ==
    {NoDefault}
    \cup {[kind |-> "static", type |-> IF typename = "INTEGER" THEN "int" ELSE "str", v |-> n] :
            n \in Vals}
    \cup {[kind |-> "generator", type |-> "none", v |-> n] : n \in Vals}

Columns == UNION {[typename : {ty}, default : Defaults(ty)] : ty \in Typenames}

ColumnLists == UNION {[1..n -> Columns] : n \in 1..MaxCols}

\* Parser.dumps / Parser.loads of the builtin parsers INT and TEXT: int(x),
\* str(x); int() of a word of letters raises ValueError
Dumps(typename, value) == value

Loads(typename, text) ==
    IF typename = "INTEGER" THEN [st |-> "ValueError", value |-> text]
    ELSE [st |-> "ok", value |-> text]

\* TableColumn.to_sql: the text after the column's name and type.  A str is
\* written between backquotes after DEFAULT; anything else is added to the
\* text as it is, which is a TypeError for an int
To_sql(col) ==
    LET d == IF col.default.kind = "generator"
             THEN [type |-> "str", gen |-> TRUE, v |-> col.default.v]
             ELSE [type |-> Dumps(col.typename, col.default).type, gen |-> FALSE,
                   v |-> col.default.v]
    IN  IF col.default.kind = "none"
        THEN [st |-> "ok", typename |-> col.typename, quoted |-> FALSE, dflt |-> d]
        ELSE IF d.type = "str"
        THEN [st |-> "ok", typename |-> col.typename, quoted |-> TRUE, dflt |-> d]
        ELSE [st |-> "TypeError", typename |-> col.typename, quoted |-> FALSE, dflt |-> d]

\* SolidTable.create: CREATE TABLE IF NOT EXISTS "name" (columns); the store
\* keeps the statement's text, the name between its double quotes
Create_sql(cols) ==
    IF \E i \in DOMAIN cols : To_sql(cols[i]).st # "ok"
    THEN [st |-> "TypeError", name_quoted |-> FALSE, cols |-> <<>>]
    ELSE [st |-> "ok", name_quoted |-> TRUE, cols |-> [i \in DOMAIN cols |-> To_sql(cols[i])]]

\* _ColumnsSqlFromTable, `^CREATE TABLE\s+\w+\s*\((.*)\)$`: \w+ matches a
\* name of word characters, not a name between quotes
ColumnsSqlFromTable_matches(sql) == ~sql.name_quoted

\* the default from_database gives a column: dflt_value of pragma_table_info
\* is the text of the DEFAULT expression, _RemoveQuotation takes the quotes
\* off, `$Generated:name` is looked up in the registry, any other text is
\* loaded by the parser of the column's type, and kept as it is when that
\* raises
Read_default(c) ==
    IF ~c.quoted THEN NoDefault
    ELSE IF c.dflt.gen THEN [kind |-> "generator", type |-> "none", v |-> c.dflt.v]
    ELSE [kind |-> "static", type |-> "str", v |-> Loads(c.typename, c.dflt).value.v]

\* SqlTable.from_database: `re_match(_ColumnsSqlFromTable, table_sql).group(1)`
\* is an AttributeError when the pattern does not match
From_database(sql) ==
    IF ~ColumnsSqlFromTable_matches(sql)
    THEN [st |-> "AttributeError", cols |-> <<>>]
    ELSE [st |-> "ok",
          cols |-> [i \in DOMAIN sql.cols |->
                       [typename |-> sql.cols[i].typename,
                        default |-> Read_default(sql.cols[i])]]]

\* table = SolidTable(name, cols, executor); await table.create()
Create(cols) ==
    /\ pure.op \in {"none", "from_database"}
    /\ pure' = [op |-> "create", args |-> cols, val |-> Create_sql(cols)]
    /\ UNCHANGED <<func, cur, out, ins, iter, deferred>>
    /\ UNCHANGED <<evars, tvars>>

\* await SqlTable.from_database(name, executor) on the table create() made
FromDatabase ==
    /\ pure.op = "create"
    /\ pure.val.st = "ok"
    /\ pure' = [op |-> "from_database", args |-> pure.args, val |-> From_database(pure.val)]
    /\ UNCHANGED <<func, cur, out, ins, iter, deferred>>
    /\ UNCHANGED <<evars, tvars>>

NextDef ==
    \/ \E cols \in ColumnLists : Create(cols)
    \/ FromDatabase

SpecDef == Init /\ [][NextDef]_vars

\* ------------------------------------------- the legacy MemoizedTable
\* MemoizedTable of the legacy module: a set of records (the mirror) and
\* the table of the store.  Its records are those of table_record; its
\* statements go to `self._executor(name)(sql, parameters)`, a call of the
\* Executor object the factory returns.  Executor defines execute() and no
\* __call__, so the call raises TypeError and no statement reaches the
\* executor's queue.
Legacy_same(nr, x, y) ==
    x.oid = y.oid
        \/ (Table_record_hash(nr, x.vals) = Table_record_hash(nr, y.vals)
              /\ Table_record_eq(nr, x.vals, y.vals))

Legacy_contains(nr, s, x) == \E y \in s : Legacy_same(nr, y, x)
Legacy_discard(nr, s, x) == {y \in s : ~Legacy_same(nr, y, x)}
Legacy_add(nr, s, x) == IF Legacy_contains(nr, s, x) THEN s ELSE s \cup {x}

\* `self._executor(name)(sql, parameters)`
Executor_called == "TypeError"

\* MemoizedTable(name, columns, database)
MemoizedTable(nr) ==
    /\ tkind = "none"
    /\ tkind' = "memoized"
    /\ nonrepeating' = nr
    /\ UNCHANGED <<records, rows, nextOid, ret, selected, last, counted>>
    /\ UNCHANGED <<evars, cvars>>

\* MemoizedTable.insert
MemoizedInsert(ignore_on_repeat, values) ==
    /\ tkind = "memoized"
    /\ nextOid <= MaxMade
    /\ LET rec == [oid |-> nextOid, vals |-> Make_vals(values)] IN
       records' = Legacy_add(nonrepeating,
                             IF Legacy_contains(nonrepeating, records, rec) /\ ~ignore_on_repeat
                             THEN Legacy_discard(nonrepeating, records, rec)
                             ELSE records,
                             rec)
    /\ nextOid' = nextOid + 1
    /\ last' = [NoLast EXCEPT !.op = "insert", !.st = Executor_called]
    /\ UNCHANGED <<tkind, nonrepeating, rows, ret, selected, counted>>
    /\ UNCHANGED <<evars, cvars>>

\* MemoizedTable.remove, the predicate a plain callable
MemoizedRemove(pred) ==
    /\ tkind = "memoized"
    /\ LET hit == {x \in records : Selects(pred, x.vals)} IN
       /\ records' = {y \in records : \A x \in hit : y \in Legacy_discard(nonrepeating, records, x)}
       /\ last' = [NoLast EXCEPT !.op = "delete", !.pred = pred, !.old = hit,
                                 !.st = IF hit = {} THEN "ok" ELSE Executor_called]
    /\ UNCHANGED <<tkind, nonrepeating, rows, nextOid, ret, selected, counted>>
    /\ UNCHANGED <<evars, cvars>>

\* the set comprehension of update() without a predicate, over the records
\* in iteration order
Legacy_replaced(nr, order, col, val, oid) ==
    LET F[n \in 0..Len(order)] ==
            IF n = 0 THEN {}
            ELSE Legacy_add(nr, F[n - 1], Replace(order[n], col, val, oid + n - 1))
    IN  F[Len(order)]

\* the loop of update() with a predicate over the matching records of the
\* copy: discard the record, add its replacement
Legacy_updated(nr, s, order, col, val, oid) ==
    LET F[n \in 0..Len(order)] ==
            IF n = 0 THEN s
            ELSE Legacy_add(nr, Legacy_discard(nr, F[n - 1], order[n]),
                            Replace(order[n], col, val, oid + n - 1))
    IN  F[Len(order)]

\* MemoizedTable.update
MemoizedUpdate(pred, col, val) ==
    /\ tkind = "memoized"
    /\ LET hit == {x \in records : Selects(pred, x.vals)} IN
       /\ nextOid + Cardinality(hit) - 1 <= MaxMade + MaxReplaced
       /\ \E order \in Orders(hit) :
            records' = IF pred = NoPred
                       THEN Legacy_replaced(nonrepeating, order, col, val, nextOid)
                       ELSE Legacy_updated(nonrepeating, records, order, col, val, nextOid)
       /\ nextOid' = nextOid + Cardinality(hit)
       /\ last' = [NoLast EXCEPT !.op = "update", !.pred = pred, !.col = col, !.val = val,
                                 !.old = hit,
                                 !.st = IF hit = {} THEN "ok" ELSE Executor_called]
    /\ UNCHANGED <<tkind, nonrepeating, rows, ret, selected, counted>>
    /\ UNCHANGED <<evars, cvars>>

\* MemoizedTable.select: the tuple of the records of the mirror, filtered
MemoizedSelect(pred) ==
    /\ tkind = "memoized"
    /\ selected' = [pred |-> pred, recs |-> {x \in records : Selects(pred, x.vals)}]
    /\ last' = NoLast
    /\ UNCHANGED <<tkind, nonrepeating, records, rows, nextOid, ret, counted>>
    /\ UNCHANGED <<evars, cvars>>

\* MemoizedTable.select_one: with a predicate the first matching record in
\* iteration order, without one `self._records.pop()`, which takes an
\* arbitrary record out of the mirror
MemoizedSelectOne(pred) ==
    /\ tkind = "memoized"
    /\ LET hit == {x \in records : Selects(pred, x.vals)} IN
       IF hit = {}
       THEN /\ selected' = [pred |-> pred, recs |-> {}]
            /\ records' = records
       ELSE \E x \in hit :
               /\ selected' = [pred |-> pred, recs |-> {x}]
               /\ records' = IF pred = NoPred THEN records \ {x} ELSE records
    /\ last' = NoLast
    /\ UNCHANGED <<tkind, nonrepeating, rows, nextOid, ret, counted>>
    /\ UNCHANGED <<evars, cvars>>

NextMemo ==
    \/ \E nr \in Schemas : MemoizedTable(nr)
    \/ \E ig \in BOOLEAN, v \in InsertValues : MemoizedInsert(ig, v)
    \/ \E p \in Preds \cup {NoPred} : MemoizedRemove(p)
    \/ \E p \in Preds \cup {NoPred}, c \in Fields, v \in Vals : MemoizedUpdate(p, c, v)

SpecMemo == Init /\ [][NextMemo]_vars

\* Table.select_one: `await anext(self.select(predicate), None)`, the first
\* record the stream of select() yields: a matching record of the copy of
\* the set in its iteration order, the first matching row in rowid order
SelectOne(pred) ==
    /\ tkind \in {"memory", "solid"}
    /\ IF tkind = "memory"
       THEN LET hit == {x \in records : Selects(pred, x.vals)} IN
            IF hit = {} THEN selected' = [pred |-> pred, recs |-> {}]
            ELSE \E x \in hit : selected' = [pred |-> pred, recs |-> {x}]
       ELSE LET hit == {j \in DOMAIN rows : Selects(pred, rows[j])} IN
            IF hit = {} THEN selected' = [pred |-> pred, recs |-> {}]
            ELSE LET m == CHOOSE j \in hit : \A k \in hit : j <= k IN
                 selected' = [pred |-> pred,
                              recs |-> {[oid |-> nextOid + m, vals |-> rows[m]]}]
    /\ counted' = NoCount
    /\ UNCHANGED <<tkind, nonrepeating, records, rows, nextOid, ret, last>>
    /\ UNCHANGED <<evars, cvars>>

\* The reading calls of the three tables, after inserts
NextSel ==
    \/ \E k \in {"memory", "solid"}, nr \in Schemas : CreateTable(k, nr)
    \/ \E nr \in Schemas : MemoizedTable(nr)
    \/ \E ig \in BOOLEAN, v \in InsertValues : tkind \in {"memory", "solid"} /\ Insert(ig, v)
    \/ \E ig \in BOOLEAN, v \in InsertValues : MemoizedInsert(ig, v)
    \/ \E p \in Preds : tkind \in {"memory", "solid"} /\ Select(p)
    \/ \E p \in Preds \cup {NoPred} : SelectOne(p)
    \/ \E p \in Preds \cup {NoPred} : MemoizedSelect(p)
    \/ \E p \in Preds \cup {NoPred} : MemoizedSelectOne(p)

SpecSel == Init /\ [][NextSel]_vars

\* ------------------------------------------------ SolidTable._execute_where
\* The statement SolidTable._execute_where hands to the connection for a
\* record: `where` the columns its WHERE clause compares, in order, `params`
\* the values bound to them; 0 is None.  In the branch of a record with a
\* None field the clause is built as `str + self._executor(' AND '.join, ...)`:
\* the call returns a Future, and str + Future raises TypeError.
Execute_where(query, nr, v) ==
    IF nr # <<>>
    THEN [st |-> "ok", query |-> query, where |-> <<nr[1]>>, params |-> <<v[nr[1]]>>]
    ELSE IF \E c \in Fields : v[c] = 0
    THEN [st |-> "TypeError", query |-> query, where |-> <<>>, params |-> <<>>]
    ELSE [st |-> "ok", query |-> query, where |-> [c \in Fields |-> c],
          params |-> [c \in Fields |-> v[c]]]

\* contains(), updated() and deleted() of a SolidTable call it with their
\* SELECT, UPDATE and DELETE statements
ExecuteWhere(query, nr, v) ==
    /\ pure' = [op |-> "where", args |-> <<query, nr, v>>,
                val |-> Execute_where(query, nr, v)]
    /\ UNCHANGED <<func, cur, out, ins, iter, deferred>>
    /\ UNCHANGED <<evars, tvars>>

NextWhere ==
    \E q \in {"SELECT", "UPDATE", "DELETE"}, nr \in Schemas \cup {<<2>>},
       v \in [Fields -> 0..MaxVal] : ExecuteWhere(q, nr, v)

SpecWhere == Init /\ [][NextWhere]_vars

\* ------------------------------------------- the legacy deferred Executor
\* deferred_executor(database) of the legacy module: execute() puts the
\* statement on an unbounded queue, the run loop takes one statement per
\* iteration and calls execute_safely.  A statement is [params, fails]:
\* the number of its parameters, and whether sqlite3 raises an Error for
\* what conn.execute is given.
MaxStmts == 3      \* statements ever passed to execute()

Execute_safely_raising(stmt) == IF stmt.fails THEN "raised" ELSE "ok"

\* Executor.execute_safely: `except SL3Error: exception(...)`, return None
Execute_safely(stmt) == IF stmt.fails THEN "logged" ELSE "ok"

\* run_iteration of deferred_executor: `exc.execute_safely(sql, *parameters,
\* **conn_kwargs)`; execute_safely takes sql and one more positional
\* argument, so two or more parameters raise TypeError at the call
Run_iteration(stmt) ==
    IF stmt.params > 1 THEN "TypeError" ELSE Execute_safely(stmt)

\* asyncio.create_task(executor.run())
Run ==
    /\ deferred.loop = "idle"
    /\ deferred' = [deferred EXCEPT !.loop = "running"]
    /\ UNCHANGED <<func, cur, out, ins, pure, iter>>
    /\ UNCHANGED <<evars, tvars>>

\* await executor.execute(sql, parameters): `return await exc.queue.put(...)`
DeferredExecute(stmt) ==
    /\ Len(deferred.queue) + Len(deferred.log) < MaxStmts
    /\ deferred' = [deferred EXCEPT !.queue = Append(@, stmt), !.ret = "None"]
    /\ UNCHANGED <<func, cur, out, ins, pure, iter>>
    /\ UNCHANGED <<evars, tvars>>

\* one iteration of Executor.run: queue.get(), then the statement; an
\* exception that leaves run_iteration ends run()
RunIteration ==
    /\ deferred.loop = "running"
    /\ deferred.queue # <<>>
    /\ LET stmt == Head(deferred.queue)
           st   == Run_iteration(stmt)
       IN  deferred' = [deferred EXCEPT
                          !.queue = Tail(@),
                          !.log = Append(@, [stmt |-> stmt, st |-> st]),
                          !.loop = IF st \in {"ok", "logged"} THEN "running" ELSE "crashed"]
    /\ UNCHANGED <<func, cur, out, ins, pure, iter>>
    /\ UNCHANGED <<evars, tvars>>

NextDeferred ==
    \/ Run
    \/ \E n \in 0..2, f \in BOOLEAN : DeferredExecute([params |-> n, fails |-> f])
    \/ RunIteration

SpecDeferred == Init /\ [][NextDeferred]_vars

\* ----------------------------------------- the record set and its executor
\* A MemoryTable with its own ConsistentExecutor (executor 1; there is no
\* ConnectionManager here).  One coroutine is inside insert(), whose set
\* calls are callables of the executor's queue; other coroutines call
\* length() and select() in between.
MaxSetCalls == 5   \* set calls submitted to the table's executor

TableExecutor == 1

\* Table.start_executor
StartExecutor ==
    /\ tkind = "memory"
    /\ refcount[TableExecutor] < MaxRef
    /\ SetHeap(CE_start(Heap, TableExecutor).h)
    /\ UNCHANGED <<queue, unfinished, tasks, fut, runs, onThread, co, issued>>
    /\ UNCHANGED <<tvars, cvars>>

\* `self._executor(f, self._records, record)` up to the await of its future
Executor_call(f) ==
    /\ tasks' = Append(tasks, [inst |-> TableExecutor, raises |-> FALSE])
    /\ fut' = Append(fut, "pending")
    /\ func' = Append(func, f)
    /\ runs' = Append(runs, 0)
    /\ queue' = [queue EXCEPT ![TableExecutor] = Append(@, Len(tasks) + 1)]
    /\ unfinished' = [unfinished EXCEPT ![TableExecutor] = @ + 1]

\* MemoryTable.insert up to the await inside contains()
InsertBegin(ignore_existing, values) ==
    /\ tkind = "memory"
    /\ ins.pc = "idle"
    /\ nextOid <= MaxMade
    /\ Len(tasks) < MaxSetCalls
    /\ Executor_call("contains")
    /\ ins' = [NoIns EXCEPT !.pc = "contains",
                            !.rec = [oid |-> nextOid, vals |-> Make_vals(values)],
                            !.ignore = ignore_existing,
                            !.task = Len(tasks) + 1]
    /\ nextOid' = nextOid + 1
    /\ UNCHANGED <<tkind, nonrepeating, records, rows, ret, selected, last, counted>>
    /\ UNCHANGED <<instances, connector, connection, native, refcount,
                   worker_task, onThread, co, issued>>
    /\ UNCHANGED <<cur, out, xvars>>

\* the set call that follows the one whose future was resolved; "return"
\* after set.add
Insert_then(i) ==
    IF i.pc = "contains" THEN (IF i.found /\ ~i.ignore THEN "discard" ELSE "add")
    ELSE IF i.pc = "discard" THEN "add"
    ELSE "return"

\* MemoryTable.insert resumed by the result of its set call, up to its next
\* await or its return
InsertResume ==
    /\ ins.pc # "idle"
    /\ fut[ins.task] = "result"
    /\ IF Insert_then(ins) = "return"
       THEN /\ ret' = [rec |-> ins.rec, ignore |-> ins.ignore]
            /\ ins' = NoIns
            /\ UNCHANGED <<tasks, fut, func, runs, queue, unfinished>>
       ELSE /\ Len(tasks) < MaxSetCalls
            /\ Executor_call(Insert_then(ins))
            /\ ins' = [ins EXCEPT !.pc = Insert_then(ins), !.task = Len(tasks) + 1,
                                  !.ran = FALSE]
            /\ ret' = ret
    /\ UNCHANGED <<tkind, nonrepeating, records, rows, nextOid, selected, last, counted>>
    /\ UNCHANGED <<instances, connector, connection, native, refcount,
                   worker_task, onThread, co, issued>>
    /\ UNCHANGED <<cur, out, xvars>>

\* the callable of insert()'s set call runs on the executor's thread
SetCallRun ==
    /\ ins.task \in onThread[TableExecutor]
    /\ ~ins.ran
    /\ ins' = [ins EXCEPT !.ran = TRUE,
                          !.found = IF func[ins.task] = "contains"
                                    THEN Set_contains(nonrepeating, records, ins.rec)
                                    ELSE @]
    /\ records' = IF func[ins.task] = "discard"
                  THEN Set_discard(nonrepeating, records, ins.rec)
                  ELSE IF func[ins.task] = "add"
                  THEN Set_add(nonrepeating, records, ins.rec)
                  ELSE records
    /\ UNCHANGED <<tkind, nonrepeating, rows, nextOid, ret, selected, last, counted>>
    /\ UNCHANGED <<func, cur, out, xvars>>
    /\ UNCHANGED evars

\* _worker of the table's executor resumed by the end of the callable
SetCallDone ==
    /\ ins.ran
    /\ WorkerDone(TableExecutor)

NextMem ==
    \/ \E nr \in Schemas : CreateTable("memory", nr)
    \/ StartExecutor
    \/ \E ig \in BOOLEAN, v \in InsertValues : InsertBegin(ig, v)
    \/ InsertResume
    \/ WorkerGet(TableExecutor)
    \/ SetCallRun
    \/ SetCallDone
    \/ Length
    \/ \E p \in Preds : Select(p)

SpecMem == Init /\ [][NextMem]_vars

\* the stream select() returns, consumed step by step while insert() runs;
\* one stream is opened
Iterated_live(it) == records

\* `for record in self._records.copy()`: the records the loop goes through
Iterated(it) == it.snap

\* the first __anext__ of the stream up to the loop: self._records.copy()
SelectBegin(pred) ==
    /\ tkind = "memory"
    /\ iter.pc = "idle"
    /\ iter' = [pc |-> "open", pred |-> pred, snap |-> records, yielded |-> {}, left |-> {}]
    /\ UNCHANGED <<func, cur, out, ins, pure, deferred>>
    /\ UNCHANGED <<evars, tvars>>

\* the loop of the stream up to its next yield, or to its end; the set is
\* gone through in any order, `await predicate(record)` skips a record
SelectNext ==
    /\ iter.pc = "open"
    /\ LET rest == {x \in Iterated(iter) \ iter.yielded : Selects(iter.pred, x.vals)} IN
       IF rest = {}
       THEN iter' = [iter EXCEPT !.pc = "done", !.left = records]
       ELSE \E x \in rest : iter' = [iter EXCEPT !.yielded = @ \cup {x}]
    /\ UNCHANGED <<func, cur, out, ins, pure, deferred>>
    /\ UNCHANGED <<evars, tvars>>

\* insert() is called with a value for column a; the predicates are on a
SnapValues == [{1} -> Vals]

SnapPreds == {NoPred} \cup [col : {1}, val : Vals]

NextSnap ==
    \/ \E nr \in Schemas : CreateTable("memory", nr)
    \/ StartExecutor
    \/ \E ig \in BOOLEAN, v \in SnapValues : InsertBegin(ig, v)
    \/ InsertResume
    \/ WorkerGet(TableExecutor)
    \/ SetCallRun
    \/ SetCallDone
    \/ \E p \in SnapPreds : SelectBegin(p)
    \/ SelectNext

SpecSnap == Init /\ [][NextSnap]_vars

\* One manager, its tasks and every interleaving of its start() and stop()
Next ==
    \/ \E f \in DbFiles : New(f, 1)
    \/ \E i \in Insts : Start(i)
    \/ \E i \in Insts : Stop(i, MaxCo)
    \/ \E c \in CoIds : Resume(c)
    \/ \E i \in Insts, r \in BOOLEAN : Submit(i, r, MaxTasks)
    \/ \E t \in TaskIds : Cancel(t)
    \/ \E i \in Insts : WorkerGet(i)
    \/ \E i \in Insts : WorkerDone(i)

Spec == Init /\ [][Next]_vars

\* no lifecycle call of manager i is suspended
Settled(i) == \A c \in CoIds : co[c].op = "idle" \/ co[c].inst # i

\* One manager whose start() and stop() calls are made one after another
NextSeq ==
    \/ \E f \in DbFiles : New(f, 1)
    \/ \E i \in Insts : Settled(i) /\ Start(i)
    \/ \E i \in Insts : Settled(i) /\ Stop(i, MaxCo)
    \/ \E c \in CoIds : Resume(c)
    \/ \E i \in Insts, r \in BOOLEAN : Submit(i, r, MaxTasks)
    \/ \E t \in TaskIds : Cancel(t)
    \/ \E i \in Insts : WorkerGet(i)
    \/ \E i \in Insts : WorkerDone(i)

SpecSeq == Init /\ [][NextSeq]_vars

\* Several managers and the registry; no task is queued, so no lifecycle
\* call is suspended
NextConn ==
    \/ \E f \in DbFiles : New(f, MaxInst)
    \/ \E i \in Insts : Start(i)
    \/ \E i \in Insts : Stop(i, MaxCo)
    \/ \E i \in Insts : Remove(i, MaxCo)
    \/ \E i \in Insts, f \in DbFiles : SetConnector(i, f, MaxCo)

SpecConn == Init /\ [][NextConn]_vars

TypeOK ==
    /\ \A i \in Insts : refcount[i] \in 0..MaxRef /\ unfinished[i] \in 0..Len(tasks)
    /\ \A i \in Insts : worker_task[i] \in {"none", "get", "exec", "crashed"}
    /\ \A i \in Insts : worker_task[i] = "none" => connection[i] = None
    /\ \A i \in Insts : worker_task[i] = "exec" <=> onThread[i] # {}

\* ------------------------------------------------------------------ claims

\* C1: tasks of one executor run in submission order: when the callable of a
\* task has been started, every task submitted earlier to the same executor
\* has finished executing and its future is resolved.
FifoOrder ==
    \A a, b \in DOMAIN tasks :
        (a < b /\ tasks[a].inst = tasks[b].inst /\ runs[b] > 0)
            => (fut[a] # "pending" /\ a \notin onThread[tasks[a].inst])

FifoOrderWitness ==
    \E a, b \in DOMAIN tasks :
        /\ a < b /\ tasks[a].inst = tasks[b].inst
        /\ runs[a] = 1 /\ runs[b] = 1
        /\ fut[a] \in {"result", "exception"} /\ fut[b] = "result"

\* C2: with start() and stop() called one after another, the connection is
\* open exactly while the reference count is positive: it is opened only by
\* the step that takes the count from 0 to 1, closed only once the count is
\* back at 0, and a stop() at count 0 changes nothing.
RefcountLifecycle ==
    /\ [](\A i \in Insts : Settled(i) =>
            /\ (refcount[i] > 0) <=> (connection[i] # None)
            /\ {n.id : n \in {m \in native : m.id[1] = i}} = {connection[i]} \ {None})
    /\ [][\A i \in Insts :
            /\ (connection'[i] # None /\ connection'[i] # connection[i])
                   => (refcount[i] = 0 /\ refcount'[i] = 1)
            /\ (connection[i] # None /\ connection'[i] = None)
                   => (refcount[i] \in {0, 1} /\ refcount'[i] = 0)
            /\ (refcount[i] = 0 /\ Settled(i) /\ Stop(i, MaxCo)) => UNCHANGED vars
       ]_vars

RefcountLifecycleWitness ==
    \E i \in Insts :
        /\ Settled(i) /\ refcount[i] = 0 /\ connection[i] = None /\ native = {}
        /\ \E t \in DOMAIN tasks : tasks[t].inst = i /\ runs[t] = 1

\* C3: at most one open native connection per database path.
OneConnectionPerPath ==
    \A n1, n2 \in native : n1.db = n2.db => n1 = n2

\* C4: while the registry entry of a path has not been evicted by remove(),
\* every construction for that path returned the same instance, and no
\* instance was returned for two different paths.
SingletonPerPath ==
    /\ \A k \in Keys : Cardinality(issued[k]) <= 1
    /\ \A k1, k2 \in Keys : k1 # k2 => issued[k1] \cap issued[k2] = {}

SingletonPerPathWitness ==
    \E k1, k2 \in Keys :
        /\ k1 # k2 /\ issued[k1] # {} /\ issued[k2] # {}
        /\ \E i \in issued[k1] : refcount[i] = MaxRef

\* C5: the worker is torn down only when its queue holds no entry.
GracefulStop ==
    [][\A i \in Insts :
          (worker_task[i] # "none" /\ worker_task'[i] = "none")
              => (queue[i] = <<>> /\ unfinished[i] = 0)]_vars

\* C6: the callable of an entry is started at most once, and never when the
\* entry's future was already done before the worker took it.
AtMostOnce ==
    /\ [](\A t \in DOMAIN tasks : runs[t] <= 1)
    /\ [][\A t \in DOMAIN tasks :
            (fut[t] # "pending" /\ runs[t] = 0) => runs'[t] = 0]_vars

AtMostOnceWitness ==
    \E a, b \in DOMAIN tasks :
        /\ a < b /\ tasks[a].inst = tasks[b].inst
        /\ fut[a] = "cancelled" /\ runs[a] = 0
        /\ runs[b] = 1 /\ fut[b] = "result"

OneAtATime ==
    \A i \in Insts : Cardinality(onThread[i]) <= 1

OneAtATimeWitness ==
    \E i \in Insts :
        /\ onThread[i] # {} /\ queue[i] # <<>>
        /\ \E c \in CoIds : co[c].op = "stop" /\ co[c].inst = i

\* a record's identity: the value of its (first) unique/primary column
IdentityPred(v) == [col |-> nonrepeating[1], val |-> v[nonrepeating[1]]]

\* C9: after insert(**values) has returned the record r, select with the
\* predicate that matches the identity of r yields exactly one record, and
\* that record equals r.
InsertThenSelect ==
    (nonrepeating # <<>> /\ ret # NoRet /\ ~ret.ignore /\ selected # NoSel
        /\ selected.pred = IdentityPred(ret.rec.vals))
    => /\ Cardinality(selected.recs) = 1
       /\ \A x \in selected.recs : Eq(nonrepeating, x.vals, ret.rec.vals)

\* C10: an insert whose identity collides with a stored record leaves
\* exactly one record of that identity: the new one when ignore_existing is
\* false, the stored one, with the table unchanged, when it is true.
InsertCollision ==
    [][(ret' # ret /\ nonrepeating # <<>>) =>
        LET r    == ret'.rec
            p    == IdentityPred(r.vals)
            old  == {x \in Stored(records, rows) : Holds(p, x.vals)}
            new  == {x \in Stored(records', rows') : Holds(p, x.vals)}
        IN  old # {} =>
               /\ Cardinality(new) = 1
               /\ IF ret'.ignore
                  THEN records' = records /\ rows' = rows
                  ELSE \A x \in new : x.vals = r.vals
      ]_vars

\* C11: after update(predicate, col=val) has completed, select by the old
\* value of the column yields no record, select by the new value yields the
\* replacement of every record the update matched, and none of the matched
\* record objects is still stored.
UpdateThenSelect ==
    (last.op = "update" /\ last.st = "ok" /\ selected # NoSel) =>
        /\ (selected.pred = last.pred /\ last.pred.col = last.col
                /\ last.pred.val # last.val)
           => selected.recs = {}
        /\ selected.pred = [col |-> last.col, val |-> last.val]
           => \A m \in last.old : \E x \in selected.recs :
                 x.vals = [m.vals EXCEPT ![last.col] = last.val]
        /\ tkind = "memory" => \A m \in last.old : \A x \in records : x.oid # m.oid

\* C12: delete() without a predicate completes and leaves the table empty,
\* whatever it held; length() and count() called afterwards return 0.
DeleteAllEmpties ==
    (last.op = "delete" /\ last.pred = NoPred) =>
        /\ last.st = "ok"
        /\ Stored(records, rows) = {}
        /\ counted # NoCount => (counted.st = "ok" /\ counted.n = 0)

\* C13: insert() without a value for a non-nullable column that has neither
\* default nor generator raises before anything reaches the executor or the
\* store: no record is returned, no statement has failed in the store, and
\* the contents of the table are unchanged.
InsertMissingFails ==
    [][\A ig \in BOOLEAN : \A v \in InsertValuesOpt :
          (Insert(ig, v) /\ \E c \in NotNull : c \notin DOMAIN v /\ Get_default(c) = 0)
          => /\ ret' = NoRet
             /\ last'.st # "IntegrityError"
             /\ records' = records
             /\ rows' = rows
      ]_vars

\* C14: set_connector(new) leaves a manager that was running (whatever its
\* reference count) running, with a native connection to the database of
\* the new connector, leaves one that was not running not running, and in
\* both cases the manager's connector is the new one afterwards.
SetConnectorSwaps ==
    [][\A i \in Insts : \A f \in DbFiles :
          SetConnector(i, f, MaxCo) =>
             /\ connector'[i] = Resolve(f)
             /\ connection[i] # None =>
                   /\ connection'[i] # None
                   /\ \E n \in native' : n.id = connection'[i] /\ n.db = Resolve(f)
             /\ connection[i] = None => connection'[i] = None
      ]_vars

\* C15: a store error raised by the native call of a statement, a commit, a
\* rollback or a fetch step is raised to the caller: no such call returns
\* normally after its native call failed.
NativeErrorsSurface ==
    out.failed => out.st = "NativeError"

\* s[start:stop:step]
Slice(rws, start, stop, step) ==
    LET F[n \in 0..Len(rws)] ==
            IF n = 0 THEN <<>>
            ELSE IF /\ n - 1 >= start
                    /\ (stop = NoStop \/ n - 1 < stop)
                    /\ (n - 1 - start) % step = 0
                 THEN Append(F[n - 1], rws[n]) ELSE F[n - 1]
    IN  F[Len(rws)]

\* C16: fetch(start, stop, step) returns remaining_rows[start:stop:step].
FetchIsSlice ==
    (out.op = "fetch" /\ ~out.failed /\ \A k \in DOMAIN out.before : out.before[k] # 0)
    => out.val = Slice(out.before, out.args[1], out.args[2], out.args[3])

\* C17: iterating a cursor over N rows yields the N rows in cursor order and
\* then ends; fetchone() and __anext__ return the next row, and None /
\* StopAsyncIteration once the rows are exhausted.
IterationYieldsAll ==
    (\A k \in DOMAIN out.before : out.before[k] # 0) =>
        /\ out.op = "aiter" => (out.st = "ok" /\ out.val = out.before /\ cur.rows = <<>>)
        /\ (out.op \in {"anext", "fetchone"} /\ out.before # <<>>) =>
              /\ out.st = "ok"
              /\ out.val = <<Head(out.before)>>
              /\ cur.rows = Tail(out.before)
        /\ (out.op = "anext" /\ out.before = <<>>) => out.st = "StopAsyncIteration"
        /\ (out.op = "fetchone" /\ out.before = <<>>) => (out.st = "ok" /\ out.val = <<0>>)

IterationYieldsAllWitness ==
    /\ out.op = "aiter"
    /\ Len(out.before) = MaxRows
    /\ \A k \in DOMAIN out.before : out.before[k] # 0
    /\ out.val = out.before

\* the tasks whose callable is a step of a native cursor
StepTasks == {t \in DOMAIN func : func[t] = "next"}

\* C18: every single-row fetch is an entry of the manager's queue of its
\* own: a cursor step starts running only as the entry the worker took from
\* the head of the queue, it is alone on the worker thread while it runs,
\* and no connect, commit or close of a lifecycle call runs during it.
StepsSerialized ==
    /\ [](\A i \in Insts : \A t \in onThread[i] \cap StepTasks : onThread[i] = {t})
    /\ [][\A i \in Insts : \A t \in (onThread'[i] \ onThread[i]) :
             queue[i] # <<>> /\ t = Head(queue[i]) /\ onThread[i] = {}]_vars
    /\ [][\A i \in Insts : connection'[i] # connection[i]
             => onThread[i] \cap StepTasks = {}]_vars

StepsSerializedWitness ==
    \E i \in Insts : \E t \in onThread[i] \cap StepTasks :
        \E u, w \in DOMAIN tasks :
            /\ u # w /\ u > t /\ w > t
            /\ func[u] = "next" /\ func[w] = "call"
            /\ fut[u] = "pending" /\ fut[w] = "pending"

\* C19: every operation on the native connection is performed on the
\* manager's worker thread, start() and stop() included: a step that opens
\* or closes a native connection is the step of a callable that the worker
\* has put on the thread, never a step of the calling coroutine.
NativeOnWorkerThread ==
    [][native' # native => \E i \in Insts : onThread[i] # {} /\ WorkerDone(i)]_vars

\* the set calls of insert() that change the record set
Mutations == {t \in DOMAIN func : func[t] \in {"discard", "add"}}

\* C20: length() and select() read the record set through the table's
\* executor: no step of length() or select() is taken while a set.discard
\* or set.add that insert() submitted is running on the executor's thread.
ReadsThroughExecutor ==
    [][(Length \/ \E p \in Preds : Select(p))
         => \A t \in onThread[TableExecutor] \cap Mutations : ins.task = t => ins.ran]_vars

\* C21: an update that completes yields, for each record it matched, the
\* replacement record, in which the updated column carries the new value.
UpdatedYieldsNew ==
    (last.op = "update" /\ last.st = "ok") =>
        last.yielded = {[m.vals EXCEPT ![last.col] = last.val] : m \in last.old}

\* C22: delete(predicate), the predicate a plain or an async callable,
\* completes, removes exactly the records the predicate holds of, yields
\* exactly those, and leaves every other record in the table.
DeleteRemovesMatching ==
    [][\A p \in Preds, as \in BOOLEAN :
          Delete(p, as) =>
             /\ last'.st = "ok"
             /\ last'.yielded = {x.vals : x \in {y \in Stored(records, rows) : Holds(p, y.vals)}}
             /\ records' = {x \in records : ~Holds(p, x.vals)}
             /\ rows' = SelectSeq(rows, LAMBDA r : ~Holds(p, r))
      ]_vars

\* C23: length(), and count() without a predicate, complete and return the
\* number of records the table stores at the time of the call.
LengthIsStored ==
    [][(Length \/ Count(NoPred)) =>
          /\ counted'.st = "ok"
          /\ counted'.n = Cardinality(Stored(records, rows))
      ]_vars

\* C24: two records of a table that declares nonrepeating columns compare
\* equal iff at least one nonrepeating column has the same value in both; two
\* records of a table that declares none never compare equal.
EqualIffAnyKeyMatches ==
    pure.op = "eq" =>
        LET nr == pure.args[2]
            v  == pure.args[3]
            w  == pure.args[4]
        IN  pure.val <=> (nr # <<>> /\ \E c \in Fields :
                             /\ \E k \in DOMAIN nr : nr[k] = c
                             /\ v[c] = w[c])

\* C25: the hash of a record depends only on its nonrepeating columns when
\* the table declares any; when it declares none, two records whose column
\* values differ are not given the same hash.
HashOfKeyOrTuple ==
    pure.op = "hash" =>
        LET nr == pure.args[2]
            v  == pure.args[3]
            w  == pure.args[4]
        IN  IF nr # <<>>
            THEN (\A k \in DOMAIN nr : v[nr[k]] = w[nr[k]]) => pure.val[1] = pure.val[2]
            ELSE v # w => pure.val[1] # pure.val[2]

\* C26: create() of a table whose columns have static defaults or
\* registered generators completes, and from_database() on the table it made
\* returns columns with the same default values and the same generators.
DefinitionRoundTrip ==
    /\ pure.op = "create" => pure.val.st = "ok"
    /\ pure.op = "from_database" =>
          /\ pure.val.st = "ok"
          /\ DOMAIN pure.val.cols = DOMAIN pure.args
          /\ \A i \in DOMAIN pure.args : pure.val.cols[i].default = pure.args[i].default

\* C27: after any sequence of insert, update and remove calls on a
\* MemoizedTable, with no statement left in the executor's queue, the values
\* of the records of the mirror are the rows of the store.
MirrorIsStore ==
    tkind = "memoized" =>
        /\ {x.vals : x \in records} = {rows[i] : i \in DOMAIN rows}
        /\ Cardinality(records) = Len(rows)

\* C28: a future that its caller cancels while the worker is executing the
\* task's callable does not end the worker: when the callable has completed
\* the worker is alive and goes on to its next get().
WorkerSurvivesCancel ==
    \A i \in Insts : worker_task[i] # "crashed"

\* C29: whenever no start() or stop() call of a manager is in progress, its
\* worker is running iff its reference count is positive iff its native
\* connection is open, whatever the interleaving of the calls was.
StartStopAgree ==
    \A i \in Insts : Settled(i) =>
        /\ (worker_task[i] \in {"get", "exec"}) <=> (refcount[i] > 0)
        /\ (refcount[i] > 0) <=> (connection[i] # None)

\* C30: the stream of MemoryTable.select yields the records that the set
\* held when the iteration started and the predicate holds of, each once,
\* whatever insert() discards from the set or adds to it meanwhile.
SelectIsSnapshot ==
    /\ iter.pc # "idle" => iter.yielded \subseteq {x \in iter.snap : Selects(iter.pred, x.vals)}
    /\ iter.pc = "done" => iter.yielded = {x \in iter.snap : Selects(iter.pred, x.vals)}

\* a stream consumed to its end that yielded a record insert() had discarded
\* from the set, and did not yield the record insert() had added
SelectIsSnapshotWitness ==
    /\ iter.pc = "done"
    /\ \E x \in iter.yielded : x \notin iter.left
    /\ \E y \in iter.left : y \notin iter.snap /\ Selects(iter.pred, y.vals)

\* C31: remove() evicts the registry entry of the manager's database path,
\* for a file path as for ':memory:', and set_connector with a connector for
\* another path evicts the entry of the old path.
RemoveEvicts ==
    [][\A i \in Insts :
          /\ Remove(i, MaxCo) => instances'[Str(connector[i])] = 0
          /\ \A f \in DbFiles :
                (SetConnector(i, f, MaxCo) /\ Resolve(f) # connector[i])
                    => instances'[Str(connector[i])] = 0
      ]_vars

\* C32: set_connector leaves the reference count of the manager as it was,
\* whether or not the database path changed, so that as many stop() calls
\* as before close the connection.
SetConnectorKeepsRefcount ==
    [][\A i \in Insts : \A f \in DbFiles :
          SetConnector(i, f, MaxCo) => refcount'[i] = refcount[i]
      ]_vars

\* C33: after set_connector with a connector for another database path the
\* registry maps the new path to this manager, so that a construction for
\* the new path returns this instance.
SetConnectorRegisters ==
    [][\A i \in Insts : \A f \in DbFiles :
          (SetConnector(i, f, MaxCo) /\ Resolve(f) # connector[i])
              => instances'[Str(Resolve(f))] = i
      ]_vars

\* C34: two records of one table that compare equal have the same hash,
\* also when the table has two or more nonrepeating columns.
EqualImpliesSameHash ==
    pure.op = "hash" =>
        LET nr == pure.args[2]
            v  == pure.args[3]
            w  == pure.args[4]
            eq == IF pure.args[1] = "sl3aio" THEN Eq(nr, v, w)
                  ELSE Table_record_eq(nr, v, w)
        IN  eq => pure.val[1] = pure.val[2]

\* C35: equality of records is an equivalence relation: every record equals
\* itself, a == b implies b == a, and a == b with b == c implies a == c, for
\* tables with zero, one or several nonrepeating columns.
EqualityIsEquivalence ==
    pure.op = "eq3" =>
        /\ pure.val.aa
        /\ pure.val.ab => pure.val.ba
        /\ (pure.val.ab /\ pure.val.bc) => pure.val.ac

\* C36: no two records stored by a MemoryTable have the same value in a
\* nonrepeating column, each such column taken separately, after any
\* sequence of insert and update calls.
MemoryKeysUnique ==
    tkind = "memory" =>
        \A x, y \in records : \A k \in DOMAIN nonrepeating :
            x # y => x.vals[nonrepeating[k]] # y.vals[nonrepeating[k]]

\* C37: select and select_one only read: after either call, with or without
\* a predicate, the record set (or mirror) and the rows of the store are
\* what they were before it, for MemoryTable, SolidTable and the legacy
\* MemoizedTable.
SelectReadsOnly ==
    [][/\ \A p \in Preds :
            (tkind \in {"memory", "solid"} /\ Select(p))
                => (records' = records /\ rows' = rows)
       /\ \A p \in Preds \cup {NoPred} :
            (SelectOne(p) \/ MemoizedSelect(p) \/ MemoizedSelectOne(p))
                => (records' = records /\ rows' = rows)
      ]_vars

\* C38: the WHERE clause of a per-record statement of SolidTable compares
\* the first nonrepeating column alone when the table declares one; else,
\* for a record with a None field, all columns that are not None; else all
\* columns.
WhereClausePriority ==
    pure.op = "where" =>
        LET nr == pure.args[2]
            v  == pure.args[3]
            NotNone(c) == v[c] # 0
            all == [c \in Fields |-> c]
        IN  /\ pure.val.st = "ok"
            /\ pure.val.where = IF nr # <<>> THEN <<nr[1]>>
                                ELSE IF \E c \in Fields : v[c] = 0
                                THEN SelectSeq(all, NotNone)
                                ELSE all

\* C39: fetch(start, stop, step) takes from the cursor the row at every
\* position from start up to stop (position 0 the next unread row, as far
\* as the rows reach), whether or not step lets the row into the result;
\* what it leaves is a suffix of what the cursor held, and the next anext()
\* or fetchone() returns the row after the last one taken.
FetchConsumes ==
    /\ out.op = "fetch" =>
          LET start  == out.args[1]
              stop   == out.args[2]
              before == out.before
              k      == Len(before) - Len(cur.rows)
          IN  /\ cur.rows = SubSeq(before, k + 1, Len(before))
              /\ ~out.failed =>
                    \A p \in 0..(Len(before) - 1) :
                        (start <= p /\ (stop = NoStop \/ p < stop)) => p < k
    /\ (out.op \in {"anext", "fetchone"} /\ out.st = "ok" /\ out.before # <<>>) =>
          /\ out.val = <<Head(out.before)>>
          /\ cur.rows = Tail(out.before)

\* C40: execute() of the legacy deferred executor only puts the statement
\* on the queue and returns None; when the run loop executes a statement for
\* which the store raises an error, the error is logged and dropped: nothing
\* is raised, the loop stays alive and goes on with the statements queued
\* after it.
DeferredDropsErrors ==
    /\ [](deferred.loop = "crashed" =>
            LET stmt == deferred.log[Len(deferred.log)].stmt IN
            ~(stmt.params <= 1 /\ stmt.fails))
    /\ [][/\ \A n \in 0..2, f \in BOOLEAN :
               DeferredExecute([params |-> n, fails |-> f]) =>
                  /\ deferred'.queue = Append(deferred.queue, [params |-> n, fails |-> f])
                  /\ deferred'.log = deferred.log
                  /\ deferred'.loop = deferred.loop
                  /\ deferred'.ret = "None"
          /\ (RunIteration /\ Head(deferred.queue).params <= 1
                           /\ Head(deferred.queue).fails) =>
                  /\ deferred'.log[Len(deferred'.log)].st = "logged"
                  /\ deferred'.loop = "running"
                  /\ deferred'.queue = Tail(deferred.queue)
                  /\ deferred'.ret = deferred.ret
       ]_vars

\* a statement whose store error was logged, and the statement queued after
\* it executed by the same run loop
DeferredDropsErrorsWitness ==
    /\ deferred.loop = "running"
    /\ \E j \in DOMAIN deferred.log :
          /\ j < Len(deferred.log)
          /\ deferred.log[j].st = "logged"
          /\ deferred.log[j + 1].st = "ok"

====
